---------------------------- MODULE Spec2Model ----------------------------
(***************************************************************************)
(* Model of windownew.py: the PCB inspection application (class PCBApp).   *)
(*                                                                         *)
(*  - compare_pcbs, the reference/test reconciliation and its annotation,  *)
(*    is modelled as an operator on detection lists and images; it is      *)
(*    exercised by SpecCompare, whose inputs are drawn from bounded sets.  *)
(*  - the Tk session (the button handlers open_camera, capture_image,      *)
(*    load_reference, open_test_file, the WM_DELETE_WINDOW handler         *)
(*    on_closing and the periodic update_frame callback) is the state      *)
(*    machine Spec.                                                        *)
(*                                                                         *)
(* Python values are represented as follows.  A detection is the tuple     *)
(* <<label, <<x1, y1, x2, y2>>>> of get_detections.  An image (a numpy     *)
(* array) is the record [src, plot, ops]: the picture it was read from,    *)
(* the detections YOLO's plot() painted on it, and the cv2 drawing calls   *)
(* applied to it since, in order.  An optional value is a sequence of      *)
(* length at most 1: None is <<>> and a value v is <<v>>.                  *)
(***************************************************************************)
EXTENDS Integers, Sequences, FiniteSets, TLC

(***************************************************************************)
(* Bounds of the model.                                                    *)
(***************************************************************************)
MaxRefLen == 3       \* longest reference detection list given to compare_pcbs
MaxTestLen == 2      \* longest test detection list given to compare_pcbs
MaxCalls == 2        \* calls of compare_pcbs on the same inputs
MaxStale == 2        \* most expired-but-unfired timers of destroyed widgets

Labels == {"R1", "C1", "C2"}
Box1 == <<10, 20, 30, 40>>
Box2 == <<50, 60, 70, 80>>
Boxes == {Box1, Box2}
Pictures == {"imgA", "imgB"}

None == <<>>
Some(v) == <<v>>

RECURSIVE SeqsUpTo(_, _)
SeqsUpTo(S, n) ==
    IF n = 0 THEN {<<>>}
    ELSE LET shorter == SeqsUpTo(S, n - 1)
         IN  shorter \cup {Append(s, e) : s \in {t \in shorter : Len(t) = n - 1}, e \in S}

\* cv2.imread / cap.read: a fresh picture, nothing drawn on it
RawImage(p) == [src |-> p, plot |-> <<>>, ops |-> <<>>]
RawImages == {RawImage(p) : p \in Pictures}

\* inputs of compare_pcbs: compare_pcbs reads only the labels of the
\* reference, so reference detections are drawn with one box
RefInputs == SeqsUpTo(Labels \X {Box1}, MaxRefLen)
TestInputs == SeqsUpTo(Labels \X Boxes, MaxTestLen)
\* what the detector returns for a frame in the session
FrameDetections ==
    {<<>>, <<<<"R1", Box1>>>>, <<<<"C1", Box2>>>>, <<<<"R1", Box1>>, <<"C1", Box2>>>>}

(***************************************************************************)
(* compare_pcbs                                                            *)
(***************************************************************************)
GREEN == <<0, 255, 0>>
RED == <<0, 0, 255>>

\* Python's `x in list`
In(x, list) == \E i \in 1..Len(list) : list[i] = x

\* [d[0] for d in detections]
labels_of(detections) == [i \in 1..Len(detections) |-> detections[i][1]]

\* cv2.rectangle(annotated, pt1, pt2, color, 2)
Rectangle(pt1, pt2, color) ==
    [op |-> "rectangle", text |-> "", pt1 |-> pt1, pt2 |-> pt2,
     fontScale |-> "", color |-> color, thickness |-> 2]

\* cv2.putText(annotated, text, org, FONT_HERSHEY_SIMPLEX, fontScale, color, 2)
PutText(text, org, fontScale, color) ==
    [op |-> "putText", text |-> text, pt1 |-> org, pt2 |-> org,
     fontScale |-> fontScale, color |-> color, thickness |-> 2]

Draw(img, op) == [img EXCEPT !.ops = Append(@, op)]

\* green if correct, red if extra
StatusColorSwapped(label, ref_labels) ==
    IF In(label, ref_labels) THEN RED ELSE GREEN
StatusColor(label, ref_labels) ==
    IF In(label, ref_labels) THEN GREEN ELSE RED

\* the body of the loop over test_detections
DrawDetectionSkipExtra(img, det, ref_labels) ==
    IF In(det[1], ref_labels)
    THEN Draw(Draw(img, Rectangle(<<det[2][1], det[2][2]>>, <<det[2][3], det[2][4]>>, GREEN)),
              PutText(det[1], <<det[2][1], det[2][2] - 5>>, "0.6", GREEN))
    ELSE img
DrawDetection(img, det, ref_labels) ==
    LET label == det[1]
        x1 == det[2][1]
        y1 == det[2][2]
        x2 == det[2][3]
        y2 == det[2][4]
        color == StatusColor(label, ref_labels)
    IN  Draw(Draw(img, Rectangle(<<x1, y1>>, <<x2, y2>>, color)),
             PutText(label, <<x1, y1 - 5>>, "0.6", color))

\* for label, box in test_detections: ...
RECURSIVE DrawDetections(_, _, _, _)
DrawDetections(img, test_detections, i, ref_labels) ==
    IF i > Len(test_detections) THEN img
    ELSE DrawDetections(DrawDetection(img, test_detections[i], ref_labels),
                        test_detections, i + 1, ref_labels)

\* missing = [lbl for lbl in ref_labels if lbl not in test_labels]
MissingSwapped(ref_labels, test_labels) ==
    SelectSeq(test_labels, LAMBDA lbl : ~In(lbl, ref_labels))
Missing(ref_labels, test_labels) ==
    SelectSeq(ref_labels, LAMBDA lbl : ~In(lbl, test_labels))

\* the body of the loop over enumerate(missing); i counts from 0
DrawMissingLineSamePlace(img, i, lbl) ==
    Draw(img, PutText("Missing: " \o lbl, <<20, 40>>, "0.8", RED))
DrawMissingLine(img, i, lbl) ==
    Draw(img, PutText("Missing: " \o lbl, <<20, 40 + 30 * i>>, "0.8", RED))

\* for i, lbl in enumerate(missing): ...
RECURSIVE DrawMissing(_, _, _)
DrawMissing(img, missing, i) ==
    IF i >= Len(missing) THEN img
    ELSE DrawMissing(DrawMissingLine(img, i, missing[i + 1]), missing, i + 1)

\* annotated = test_img.copy(): a new buffer with the same content.  The
\* result records both buffers after the statement.
CopyAliased(test_img) == [annotated |-> test_img, aliased |-> TRUE]
Copy(test_img) == [annotated |-> test_img, aliased |-> FALSE]

\* compare_pcbs(ref_detections, test_detections, test_img): the returned
\* image, and the content of the caller's buffer test_img after the call
compare_pcbs(ref_detections, test_detections, test_img) ==
    LET c == Copy(test_img)
        ref_labels == labels_of(ref_detections)
        test_labels == labels_of(test_detections)
        drawn == DrawDetections(c.annotated, test_detections, 1, ref_labels)
        missing == Missing(ref_labels, test_labels)
        annotated == DrawMissing(drawn, missing, 0)
    IN  [annotated |-> annotated,
         test_img |-> IF c.aliased THEN annotated ELSE test_img]

(***************************************************************************)
(* State.                                                                  *)
(*   c_*: one caller of compare_pcbs: its arguments, its image buffer, the *)
(*        image returned by the last call, the number of calls made.       *)
(*   the rest: the fields of PCBApp and the Tk state they refer to.        *)
(***************************************************************************)
VARIABLES
    c_ref,                  \* ref_detections passed to compare_pcbs
    c_test,                 \* test_detections passed to compare_pcbs
    c_img,                  \* content of the caller's buffer passed as test_img
    c_out,                  \* the image returned by the last call, or None
    c_calls,                \* calls of compare_pcbs made so far
    reference_detections,   \* self.reference_detections: None or Some(list)
    camera_running,         \* self.camera_running
    cap,                    \* self.cap: "None", "opened", "unopened", "released"
    video_label,            \* self.video_label: "None", "alive", "destroyed"
    main_area,              \* the children of self.main_area, in pack order
    timers,                 \* pending after(30, update_frame) whose command exists
    stale_timers,           \* pending after timers whose command was deleted
    message,                \* the messagebox shown by the last handler, or None
    saved,                  \* the image last written by cv2.imwrite, or None
    closed                  \* root.destroy() has run

cvars == <<c_ref, c_test, c_img, c_out, c_calls>>
svars == <<reference_detections, camera_running, cap, video_label, main_area,
           timers, stale_timers, message, saved, closed>>
vars == <<cvars, svars>>

(***************************************************************************)
(* Widgets of main_area.                                                   *)
(***************************************************************************)
Label(text, image) == [kind |-> "Label", text |-> text, image |-> image]
Button(text) == [kind |-> "Button", text |-> text, image |-> None]
VideoLabel(image) == [kind |-> "video_label", text |-> "", image |-> image]

WelcomeText == "Welcome! Use 'New Project' to scan, 'Load Reference PCB' to set baseline, and 'Open Test PCB' to check errors."
ReferenceLoadedText == "Reference PCB loaded successfully!"
TestCheckedText == "Test PCB checked against reference!"
CaptureButton == Button("Capture Image")

HasVideoLabel(area) == \E i \in 1..Len(area) : area[i].kind = "video_label"
HasCaptureButton(area) == \E i \in 1..Len(area) : area[i] = CaptureButton

\* results[0].plot(): the frame with the detections painted on it
Plot(frame, detections) == [frame EXCEPT !.plot = detections]

\* cap.read(): the values ret can take
Read(c) == IF c = "opened" THEN BOOLEAN ELSE {FALSE}

(***************************************************************************)
(* __init__                                                                *)
(***************************************************************************)
SessionInit ==
    /\ reference_detections = None
    /\ camera_running = FALSE
    /\ cap = "None"
    /\ video_label = "None"
    /\ main_area = <<Label(WelcomeText, None)>>
    /\ timers = 0
    /\ stale_timers = 0
    /\ message = None
    /\ saved = None
    /\ closed = FALSE

CompareIdle ==
    /\ c_ref = <<>>
    /\ c_test = <<>>
    /\ c_img = RawImage("imgA")
    /\ c_out = None
    /\ c_calls = 0

(***************************************************************************)
(* SpecCompare: compare_pcbs applied to every input of the bounded sets,   *)
(* up to MaxCalls times on the same arguments and the same buffer.         *)
(***************************************************************************)
InitCompare ==
    /\ c_ref \in RefInputs
    /\ c_test \in TestInputs
    /\ c_img \in RawImages
    /\ c_out = None
    /\ c_calls = 0
    /\ SessionInit

CallCompare ==
    /\ c_calls < MaxCalls
    /\ LET r == compare_pcbs(c_ref, c_test, c_img)
       IN  /\ c_out' = Some(r.annotated)
           /\ c_img' = r.test_img
    /\ c_calls' = c_calls + 1
    /\ UNCHANGED <<c_ref, c_test, svars>>

NextCompare == CallCompare

SpecCompare == InitCompare /\ [][NextCompare]_vars

(***************************************************************************)
(* The Tk session.                                                         *)
(*                                                                         *)
(* Tk runs one handler or callback at a time.  widget.after(ms, f)         *)
(* registers f as a Tcl command owned by the widget and starts a timer     *)
(* for it; widget.destroy() deletes the commands the widget owns, so a     *)
(* timer that expires afterwards finds no command ("invalid command        *)
(* name", reported by Tk) and f is not called.  Calling configure() on a   *)
(* destroyed widget raises TclError.                                       *)
(***************************************************************************)
NoReferenceWarning == "Load a Reference PCB first"

\* the widget update_frame registers its after() callback on
AfterWidgetRoot == "root"
AfterWidget == "video_label"

\* for widget in self.main_area.winfo_children(): widget.destroy()
\* gives the state of the old video label and of the pending timers
DestroyChildren ==
    LET hit == HasVideoLabel(main_area) /\ AfterWidget = "video_label"
    IN  [video_label |-> IF HasVideoLabel(main_area) THEN "destroyed" ELSE video_label,
         timers |-> IF hit THEN 0 ELSE timers,
         stale_timers |-> IF hit THEN stale_timers + timers ELSE stale_timers]

\* the timers a destroy turns stale stay within the model's bound
CanDestroy == stale_timers + timers <= MaxStale

\* self.video_label.configure(image=imgtk)
Configure(area, image) ==
    [i \in 1..Len(area) |->
        IF area[i].kind = "video_label" THEN VideoLabel(Some(image)) ELSE area[i]]

\* update_frame() run with the given field values: the children of
\* main_area and the pending timers afterwards.  With the label destroyed,
\* configure raises TclError before after() is reached.
update_frame(running, vlabel, area, tm, ret, image) ==
    IF ~running THEN [main_area |-> area, timers |-> tm]
    ELSE IF ret /\ vlabel # "alive" THEN [main_area |-> area, timers |-> tm]
    ELSE [main_area |-> IF ret THEN Configure(area, image) ELSE area,
          timers |-> tm + 1]

\* "New Project (Camera)"
open_camera ==
    /\ ~closed
    /\ CanDestroy
    /\ \E opened \in BOOLEAN, ret \in BOOLEAN, p \in Pictures, detections \in FrameDetections :
          LET d == DestroyChildren
              area == <<VideoLabel(None), CaptureButton>>
              u == update_frame(TRUE, "alive", area, d.timers, ret,
                                Plot(RawImage(p), detections))
          IN  /\ (~(opened /\ ret) => detections = <<>>)
              /\ (~opened => ~ret)
              /\ stale_timers' = d.stale_timers
              /\ IF ~opened
                 THEN /\ cap' = "unopened"
                      /\ message' = Some("Cannot open camera")
                      /\ main_area' = <<>>
                      /\ video_label' = d.video_label
                      /\ timers' = d.timers
                      /\ UNCHANGED camera_running
                 ELSE /\ cap' = "opened"
                      /\ camera_running' = TRUE
                      /\ video_label' = "alive"
                      /\ main_area' = u.main_area
                      /\ timers' = u.timers
                      /\ message' = None
    /\ UNCHANGED <<reference_detections, saved, closed, cvars>>

\* the after(30, update_frame) timer expires and Tk calls update_frame
update_frame_timer ==
    /\ ~closed
    /\ timers > 0
    /\ \E ret \in Read(cap), p \in Pictures, detections \in FrameDetections :
          LET u == update_frame(camera_running, video_label, main_area, timers - 1,
                                ret, Plot(RawImage(p), detections))
          IN  /\ (~ret => detections = <<>>)
              /\ main_area' = u.main_area
              /\ timers' = u.timers
    /\ message' = None
    /\ UNCHANGED <<reference_detections, camera_running, cap, video_label,
                   stale_timers, saved, closed, cvars>>

\* a timer of a destroyed widget expires: its command is gone, Tk reports
\* "invalid command name" and no Python code runs
stale_timer_expires ==
    /\ ~closed
    /\ stale_timers > 0
    /\ stale_timers' = stale_timers - 1
    /\ UNCHANGED <<reference_detections, camera_running, cap, video_label, main_area,
                   timers, message, saved, closed, cvars>>

\* "Capture Image"
capture_image ==
    /\ ~closed
    /\ HasCaptureButton(main_area)
    /\ IF cap = "None" \/ ~camera_running
       THEN /\ message' = Some("Camera is not running")
            /\ UNCHANGED saved
       ELSE \E ret \in Read(cap), p \in Pictures, detections \in FrameDetections :
               IF ret
               THEN /\ saved' = Some(Plot(RawImage(p), detections))
                    /\ message' = Some("Captured")
               ELSE /\ detections = <<>>
                    /\ message' = None
                    /\ UNCHANGED saved
    /\ UNCHANGED <<reference_detections, camera_running, cap, video_label, main_area,
                   timers, stale_timers, closed, cvars>>

\* what filedialog.askopenfilename and cv2.imread give: the dialog is
\* cancelled, the file is no image, or a picture is read
FileChoices == {"cancelled", "unreadable"} \cup Pictures

\* for widget in winfo_children(): widget.destroy(), then the new children
ReplaceChildren(area) ==
    LET d == DestroyChildren
    IN  /\ CanDestroy
        /\ video_label' = d.video_label
        /\ timers' = d.timers
        /\ stale_timers' = d.stale_timers
        /\ main_area' = area

\* "Load Reference PCB"
load_reference ==
    /\ ~closed
    /\ \E file \in FileChoices, detections \in FrameDetections :
          IF file = "cancelled"
          THEN /\ detections = <<>>
               /\ message' = None
               /\ UNCHANGED <<reference_detections, video_label, main_area, timers, stale_timers>>
          ELSE IF file = "unreadable"
          THEN /\ detections = <<>>
               /\ message' = Some("Could not read reference image")
               /\ UNCHANGED <<reference_detections, video_label, main_area, timers, stale_timers>>
          ELSE /\ reference_detections' = Some(detections)
               /\ ReplaceChildren(<<Label("", Some(Plot(RawImage(file), detections))),
                                    Label(ReferenceLoadedText, None)>>)
               /\ message' = None
    /\ UNCHANGED <<camera_running, cap, saved, closed, cvars>>

\* if self.reference_detections is None
NoReferenceFalsy(ref) == ref = None \/ ref = Some(<<>>)
NoReference(ref) == ref = None

\* self.reference_detections after open_test_file ran the detector: the
\* detections go to the local test_detections, the field is not assigned
ReferenceAfterTestStored(ref, test_detections) == Some(test_detections)
ReferenceAfterTest(ref, test_detections) == ref

\* "Open Test PCB (File)"
open_test_file ==
    /\ ~closed
    /\ IF NoReference(reference_detections)
       THEN /\ message' = Some(NoReferenceWarning)
            /\ UNCHANGED <<reference_detections, video_label, main_area, timers, stale_timers>>
       ELSE \E file \in FileChoices, test_detections \in FrameDetections :
               IF file = "cancelled"
               THEN /\ test_detections = <<>>
                    /\ message' = None
                    /\ UNCHANGED <<reference_detections, video_label, main_area, timers, stale_timers>>
               ELSE IF file = "unreadable"
               THEN /\ test_detections = <<>>
                    /\ message' = Some("Could not read test image")
                    /\ UNCHANGED <<reference_detections, video_label, main_area, timers, stale_timers>>
               ELSE LET frame == RawImage(file)
                        result_img == compare_pcbs(reference_detections[1], test_detections,
                                                   frame).annotated
                    IN  /\ reference_detections' =
                               ReferenceAfterTest(reference_detections, test_detections)
                        /\ ReplaceChildren(<<Label("", Some(result_img)),
                                             Label(TestCheckedText, None)>>)
                        /\ message' = None
    /\ UNCHANGED <<camera_running, cap, saved, closed, cvars>>

\* WM_DELETE_WINDOW; root.destroy() ends the Tcl interpreter and with it
\* every widget and every pending timer
on_closing ==
    /\ ~closed
    /\ camera_running' = FALSE
    /\ cap' = IF cap # "None" THEN "released" ELSE cap
    /\ main_area' = <<>>
    /\ video_label' = IF video_label = "alive" THEN "destroyed" ELSE video_label
    /\ timers' = 0
    /\ stale_timers' = 0
    /\ closed' = TRUE
    /\ message' = None
    /\ UNCHANGED <<reference_detections, saved, cvars>>

Init == SessionInit /\ CompareIdle

Next ==
    \/ open_camera
    \/ update_frame_timer
    \/ stale_timer_expires
    \/ capture_image
    \/ load_reference
    \/ open_test_file
    \/ on_closing

Spec == Init /\ [][Next]_vars

(***************************************************************************)
(* Reading a returned image back: what compare_pcbs drew on it.            *)
(***************************************************************************)
Returned == c_calls > 0
Out == c_out[1]

\* the boxes drawn, one per classified entry
Rects(img) == SelectSeq(img.ops, LAMBDA o : o.op = "rectangle")
\* the drawing calls that follow the entries of n test detections
AfterEntries(img, n) == SubSeq(img.ops, 2 * n + 1, Len(img.ops))
\* the status a colour stands for
StatusOf(color) == IF color = GREEN THEN {"CORRECT"} ELSE IF color = RED THEN {"EXTRA"} ELSE {}
\* the label a "Missing: <label>" line names
MissingText(lbl) == "Missing: " \o lbl
LabelOfLine(line) == CHOOSE l \in Labels : line.text = MissingText(l)
Count(x, list) == Cardinality({i \in 1..Len(list) : list[i] = x})
FirstIndex(x, list) == CHOOSE i \in 1..Len(list) : list[i] = x /\ \A j \in 1..(i - 1) : list[j] # x

(***************************************************************************)
(* Claims about compare_pcbs, checked under SpecCompare.                   *)
(***************************************************************************)

\* C1: each test detection with label l is drawn CORRECT (green) if and only
\* if l occurs at least once among the reference labels, and EXTRA (red)
\* otherwise; membership, not consumption: a label held once by the
\* reference and several times by the test is CORRECT every time.
C1_Membership ==
    Returned =>
        /\ Len(Rects(Out)) = Len(c_test)
        /\ \A i \in 1..Len(c_test) :
              LET l == c_test[i][1]
                  occurs == \E j \in 1..Len(c_ref) : c_ref[j][1] = l
              IN  /\ occurs => StatusOf(Rects(Out)[i].color) = {"CORRECT"}
                  /\ ~occurs => StatusOf(Rects(Out)[i].color) = {"EXTRA"}

\* C1 witness: the reference holds R1 once, the test holds it twice, and
\* both test detections came out CORRECT.
C1_Witness ==
    /\ Returned
    /\ Count("R1", labels_of(c_ref)) = 1
    /\ Len(c_test) = 2 /\ c_test[1][1] = "R1" /\ c_test[2][1] = "R1"
    /\ Len(Rects(Out)) = 2
    /\ Rects(Out)[1].color = GREEN /\ Rects(Out)[2].color = GREEN

\* C2: a label that occurs k > 1 times in the reference and nowhere in the
\* test is reported by exactly one "Missing" line.
C2_MissingDedup ==
    Returned =>
        \A l \in Labels :
            (Count(l, labels_of(c_ref)) > 1 /\ Count(l, labels_of(c_test)) = 0)
                => Cardinality({i \in 1..Len(Out.ops) : Out.ops[i].text = MissingText(l)}) = 1

\* C3: the entries correspond one-to-one and in order with the test
\* detections: as many entries as test detections, the i-th entry carries
\* the label and the region of the i-th test detection, and each entry has
\* exactly one status.
C3_OneEntryPerDetection ==
    Returned =>
        /\ Len(Rects(Out)) = Len(c_test)
        /\ Len(Out.ops) >= 2 * Len(c_test)
        /\ \A i \in 1..Len(c_test) :
              LET box == Out.ops[2 * i - 1]
                  txt == Out.ops[2 * i]
                  region == c_test[i][2]
              IN  /\ box.op = "rectangle"
                  /\ box.pt1 = <<region[1], region[2]>>
                  /\ box.pt2 = <<region[3], region[4]>>
                  /\ txt.op = "putText"
                  /\ txt.text = c_test[i][1]
                  /\ txt.pt1 = <<region[1], region[2] - 5>>
                  /\ txt.color = box.color
                  /\ Cardinality(StatusOf(box.color)) = 1

\* C3 witness: two test detections with different regions, one drawn
\* CORRECT and one drawn EXTRA.
C3_Witness ==
    /\ Returned
    /\ Len(c_test) = 2 /\ c_test[1][2] # c_test[2][2]
    /\ Len(Rects(Out)) = 2
    /\ StatusOf(Rects(Out)[1].color) = {"CORRECT"}
    /\ StatusOf(Rects(Out)[2].color) = {"EXTRA"}

\* C4: a label is in the missing list if and only if it occurs in the
\* reference and nowhere in the test, and the missing list is ordered by
\* the position of each label's first occurrence in the reference.
C4_MissingOrder ==
    Returned =>
        LET lines == AfterEntries(Out, Len(c_test))
            refl == labels_of(c_ref)
            testl == labels_of(c_test)
        IN  /\ \A l \in Labels :
                  (\E i \in 1..Len(lines) : lines[i].text = MissingText(l))
                      <=> (In(l, refl) /\ ~In(l, testl))
            /\ \A i, j \in 1..Len(lines) :
                  i < j => FirstIndex(LabelOfLine(lines[i]), refl)
                              <= FirstIndex(LabelOfLine(lines[j]), refl)

\* C6: with an empty reference every test detection is EXTRA and nothing is
\* missing; compare([], []) draws nothing at all.
C6_EmptyReference ==
    (Returned /\ c_ref = <<>>) =>
        /\ Len(Rects(Out)) = Len(c_test)
        /\ \A i \in 1..Len(c_test) : StatusOf(Rects(Out)[i].color) = {"EXTRA"}
        /\ AfterEntries(Out, Len(c_test)) = <<>>
        /\ (c_test = <<>> => Out.ops = <<>>)

\* C6 witness: the reference is empty, the test holds one detection, and
\* it was drawn EXTRA.
C6_Witness ==
    /\ Returned
    /\ c_ref = <<>>
    /\ Len(c_test) = 1
    /\ Len(Out.ops) = 2
    /\ StatusOf(Out.ops[1].color) = {"EXTRA"}

\* C8: a call never changes the caller's image: the drawing goes to a copy
\* that is returned, a second call on the same inputs returns the same
\* image, and with no entries and nothing missing the copy is unannotated.
C8_BaseImageUntouched ==
    [][ /\ c_img' = c_img
        /\ c_out'[1].src = c_img.src /\ c_out'[1].plot = c_img.plot
        /\ (Returned => c_out' = c_out)
        /\ ((c_ref = <<>> /\ c_test = <<>>) => c_out' = Some(c_img)) ]_vars

\* C8 witness: two calls were made, the returned image carries drawing and
\* the caller's image carries none.
C8_Witness ==
    /\ c_calls = 2
    /\ Out.ops # <<>>
    /\ c_img.ops = <<>>

\* C9: one text line per entry of the missing list, in its order, each
\* "Missing: <label>", in the colour of EXTRA, the i-th (from 0) at the
\* anchor plus i times a fixed vertical offset; no two share a position.
C9_MissingLines ==
    Returned =>
        LET lines == AfterEntries(Out, Len(c_test))
            missing == Missing(labels_of(c_ref), labels_of(c_test))
        IN  /\ Len(lines) = Len(missing)
            /\ \A i \in 1..Len(lines) :
                  /\ lines[i].op = "putText"
                  /\ lines[i].text = MissingText(missing[i])
                  /\ StatusOf(lines[i].color) = {"EXTRA"}
                  /\ lines[i].pt1[1] = lines[1].pt1[1]
                  /\ lines[i].pt1[2] = lines[1].pt1[2] + 30 * (i - 1)
            /\ \A i, j \in 1..Len(lines) : i # j => lines[i].pt1 # lines[j].pt1

\* C9 witness: three labels are missing and the three lines were drawn.
C9_Witness ==
    /\ Returned
    /\ Len(Missing(labels_of(c_ref), labels_of(c_test))) = 3
    /\ Len(AfterEntries(Out, Len(c_test))) = 3

(***************************************************************************)
(* Claims about the session, checked under Spec.                           *)
(***************************************************************************)
\* main_area shows the outcome of a test comparison / of a reference load
ShowsResult(area) == Len(area) = 2 /\ area[2].text = TestCheckedText
ShowsReference(area) == Len(area) = 2 /\ area[2].text = ReferenceLoadedText
\* the picture shown by the first child of main_area
Shown(area) == area[1].image[1]

\* C5: a test comparison requested while no reference was ever set ends in
\* the no-reference warning and shows no comparison result; a reference
\* that was loaded with zero detections is a reference, and the comparison
\* against it proceeds to the file dialog instead of that warning.
C5_NoReference ==
    [][ /\ (reference_detections = None => ~ShowsResult(main_area'))
        /\ (open_test_file /\ reference_detections = None
               => /\ message' = Some(NoReferenceWarning)
                  /\ UNCHANGED <<main_area, reference_detections>>)
        /\ (open_test_file /\ reference_detections # None
               => message' # Some(NoReferenceWarning))
        /\ (message' = Some(NoReferenceWarning) => reference_detections' = None) ]_vars

\* C5 witness: the warning was shown with no reference set, and nothing
\* replaced the welcome screen.
C5_Witness ==
    /\ reference_detections = None
    /\ message = Some(NoReferenceWarning)
    /\ main_area = <<Label(WelcomeText, None)>>

\* C7: the reference snapshot changes only in a step that ends with the
\* "reference loaded" screen, and whenever that screen is up the snapshot
\* is the detection set it shows: the most recent successful load.  Every
\* other step (test comparison, cancelled or unreadable load, camera
\* operations, close) leaves the snapshot as it was.
C7_SnapshotIsLastLoad ==
    [][ /\ (reference_detections' # reference_detections => ShowsReference(main_area'))
        /\ (ShowsReference(main_area')
               => reference_detections' = Some(Shown(main_area').plot)) ]_vars

\* C7 witness: a reference with detections is set, the camera was opened,
\* and a test comparison is on screen.
C7_Witness ==
    /\ reference_detections # None
    /\ reference_detections[1] # <<>>
    /\ cap = "opened"
    /\ ShowsResult(main_area)
    /\ Shown(main_area).plot = <<>>
    /\ Shown(main_area).ops # <<>>

\* C10: whenever an update_frame timer is pending with camera_running true,
\* the video_label it configures is alive, and at most one update_frame
\* timer is pending.
C10_OneLoopLiveLabel ==
    /\ (timers > 0 /\ camera_running) => (video_label = "alive" /\ HasVideoLabel(main_area))
    /\ timers <= 1

\* C10 witness: the camera was opened again while a loop was pending: the
\* old timer is stale and exactly one timer is pending on the live label.
C10_Witness ==
    /\ camera_running
    /\ timers = 1
    /\ stale_timers > 0
    /\ video_label = "alive"

=============================================================================
